---- MODULE Spec2Model ----
(***************************************************************************)
(* The ChatInterface component of frontend/src/components/ChatInterface.jsx *)
(* as a state machine: the draft text, the staged images, the file reads of *)
(* every handleImageSelect call that is still running, and the two props    *)
(* the parent supplies (conversation, isLoading).                           *)
(*                                                                         *)
(* Strings are sequences of one-character strings, so that trim() is        *)
(* computed.  JavaScript array indices are 0-based; sequences here are      *)
(* 1-based, and the handlers take the 0-based index the code takes.         *)
(***************************************************************************)
EXTENDS Integers, Sequences, FiniteSets, Bags, TLC

VARIABLES
    input,           \* useState(''): the draft text
    selectedImages,  \* useState([]): the staged images, {dataUrl, name}
    batches,         \* the handleImageSelect calls with reads pending (a bag)
    isLoading,       \* prop
    conversation,    \* prop
    effects,         \* what the handler that ran last did to the outside
    scenario,        \* observer: how far the run has followed the scenario
    watch,           \* observer: the batches selected while others were running
    clean            \* observer: no edit and no selection since the last dispatch

vars == <<input, selectedImages, batches, isLoading, conversation, effects, scenario,
          watch, clean>>

(***************************************************************************)
(* Bounds.                                                                 *)
(***************************************************************************)
MaxStaged == 3      \* staged images plus images of reads still pending

(***************************************************************************)
(* Text.                                                                   *)
(***************************************************************************)
Hello == <<"h", "e", "l", "l", "o">>

\* the values the textarea takes: empty, blank, plain, padded with blanks
Texts == {<<>>, <<" ">>, <<"a">>, <<" ", "a", " ">>, <<"\n", " ">>, Hello}

SeqsUpTo(S, n) == UNION {[1..k -> S] : k \in 0..n}

IsSpace(c) == c \in {" ", "\n", "\t"}

RECURSIVE TrimStart(_)
TrimStart(s) ==
    IF s = <<>> THEN <<>>
    ELSE IF IsSpace(Head(s)) THEN TrimStart(Tail(s))
    ELSE s

RECURSIVE TrimEnd(_)
TrimEnd(s) ==
    IF s = <<>> THEN <<>>
    ELSE IF IsSpace(s[Len(s)]) THEN TrimEnd(SubSeq(s, 1, Len(s) - 1))
    ELSE s

\* String.prototype.trim
Trim(s) == TrimEnd(TrimStart(s))

(***************************************************************************)
(* Files and the images read from them.                                    *)
(***************************************************************************)
FileA == [name |-> "a.png", bytes |-> "A"]
FileB == [name |-> "b.png", bytes |-> "B"]

Files == {FileA, FileB}

\* e.target.files: the files of one selection, no file twice
FileLists ==
    {fs \in SeqsUpTo(Files, Cardinality(Files)) :
        \A i, j \in 1..Len(fs) : i /= j => fs[i] /= fs[j]}

\* FileReader.readAsDataURL: event.target.result
DataUrl(file) == <<"data:image/png;base64,", file.bytes>>

\* the value a read's promise resolves with
ImageOf(file) == [dataUrl |-> DataUrl(file), name |-> file.name]

(***************************************************************************)
(* A handleImageSelect call: its files and, in completion order, the reads *)
(* that have completed (position in files, loaded or failed); and whether  *)
(* a submit has been dispatched since the call was made.                   *)
(***************************************************************************)
Completed(b) == {b.order[k].index : k \in 1..Len(b.order)}

PendingReads(b) == (1..Len(b.files)) \ Completed(b)

Failed(b) == {b.order[k].index : k \in {j \in 1..Len(b.order) : ~b.order[j].ok}}

\* Promise.all(imagePromises): rejected by the first rejection, fulfilled
\* when every promise is
PromiseAllState(b) ==
    IF Failed(b) /= {} THEN "rejected"
    ELSE IF PendingReads(b) = {} THEN "fulfilled"
    ELSE "pending"

\* faulty variant: the resolved values in the order the reads completed
PromiseAllValue_CompletionOrder(b) ==
    [k \in 1..Len(b.order) |-> ImageOf(b.files[b.order[k].index])]

\* the array Promise.all resolves with: by position, not by completion
PromiseAllValue(b) == [i \in 1..Len(b.files) |-> ImageOf(b.files[i])]

\* the batch before its latest read completed
Before(b) == [b EXCEPT !.order = SubSeq(@, 1, Len(@) - 1)]

\* the await of line 44 returns or throws in this step
Settles(old, new) ==
    PromiseAllState(old) = "pending" /\ PromiseAllState(new) /= "pending"

\* the images of the reads of b that loaded, by position
RECURSIVE LoadedFrom(_, _)
LoadedFrom(b, i) ==
    IF i > Len(b.files) THEN <<>>
    ELSE (IF i \in Completed(b) \ Failed(b) THEN <<ImageOf(b.files[i])>> ELSE <<>>)
         \o LoadedFrom(b, i + 1)

\* faulty variant: a rejected batch still stages the images that loaded
AfterAwait_PartialAppend(prev, old, new) ==
    IF Settles(old, new)
    THEN prev \o (IF PromiseAllState(new) = "fulfilled" THEN PromiseAllValue(new)
                  ELSE LoadedFrom(new, 1))
    ELSE prev

\* faulty variant: every image is staged as soon as its own read loads
AfterAwait_PerRead(prev, old, new) ==
    IF PromiseAllState(old) = "pending" /\ new.order[Len(new.order)].ok
    THEN prev \o <<ImageOf(new.files[new.order[Len(new.order)].index])>>
    ELSE prev

\* faulty variant: the resolved batch replaces what is staged
\* (setSelectedImages(images))
AfterAwait_Overwrite(prev, old, new) ==
    IF Settles(old, new) /\ PromiseAllState(new) = "fulfilled"
    THEN PromiseAllValue(new)
    ELSE prev

\* line 45, after the await: setSelectedImages((prev) => [...prev, ...images])
AfterAwait(prev, old, new) ==
    IF Settles(old, new) /\ PromiseAllState(new) = "fulfilled"
    THEN prev \o PromiseAllValue(new)
    ELSE prev

\* faulty variant: one alert for every read that fails
AlertCalls_PerFailure(old, new) ==
    IF ~new.order[Len(new.order)].ok THEN 1 ELSE 0

\* faulty variant: the failure is reported only once every read of the
\* batch has completed (Promise.allSettled)
AlertCalls_WhenAllDone(old, new) ==
    IF PendingReads(new) = {} /\ Failed(new) /= {} THEN 1 ELSE 0

\* lines 46-49: the catch block runs once, when the await throws
AlertCalls(old, new) ==
    IF Settles(old, new) /\ PromiseAllState(new) = "rejected" THEN 1 ELSE 0

(***************************************************************************)
(* Content handed to onSendMessage: a string or an array of parts.         *)
(***************************************************************************)
StringContent(text) == [type |-> "string", text |-> text]

ArrayContent(parts) == [type |-> "array", parts |-> parts]

TextPart(text) == [type |-> "text", text |-> text]

ImagePart(url) == [type |-> "image_url", image_url |-> [url |-> url]]

\* faulty variant: the draft is not looked at
SubmitGuard_LoadingOnly(text, images, loading) == ~loading

\* line 58
SubmitGuard(text, images, loading) ==
    (Trim(text) /= <<>> \/ Len(images) > 0) /\ ~loading

\* faulty variant: the text is trimmed before it is sent
BuildContent_Trimmed(text, images) ==
    IF Len(images) > 0
    THEN ArrayContent(
            (IF Trim(text) /= <<>> THEN <<TextPart(Trim(text))>> ELSE <<>>)
            \o [k \in 1..Len(images) |-> ImagePart(images[k].dataUrl)])
    ELSE StringContent(Trim(text))

\* faulty variant: the text part is pushed whatever the text is
BuildContent_AlwaysText(text, images) ==
    IF Len(images) > 0
    THEN ArrayContent(
            <<TextPart(text)>>
            \o [k \in 1..Len(images) |-> ImagePart(images[k].dataUrl)])
    ELSE StringContent(text)

\* lines 60-74
BuildContent(text, images) ==
    IF Len(images) > 0
    THEN ArrayContent(
            (IF Trim(text) /= <<>> THEN <<TextPart(text)>> ELSE <<>>)
            \o [k \in 1..Len(images) |-> ImagePart(images[k].dataUrl)])
    ELSE StringContent(text)

\* faulty variant: the draft is reset only when the callback succeeds
ResetDraft_OnSuccess(text, images, outcome) ==
    IF outcome = "resolves" THEN [input |-> <<>>, selectedImages |-> <<>>]
    ELSE [input |-> text, selectedImages |-> images]

\* lines 77-78: the draft text and the staged images after onSendMessage
\* was called; the promise it returned is not awaited
ResetDraft(text, images, outcome) == [input |-> <<>>, selectedImages |-> <<>>]

\* line 53: prev.filter((_, i) => i !== index), index 0-based
RECURSIVE FilterFrom(_, _, _)
FilterFrom(prev, index, i) ==
    IF i > Len(prev) THEN <<>>
    ELSE (IF i - 1 /= index THEN <<prev[i]>> ELSE <<>>)
         \o FilterFrom(prev, index, i + 1)

\* faulty variant: filters by value, prev.filter((img) => img !== prev[index])
FilterOut_ByValue(prev, index) ==
    SelectSeq(prev, LAMBDA img : img /= prev[index + 1])

\* faulty variant: the test is inverted, prev.filter((_, i) => i === index)
FilterOut_KeepOnly(prev, index) == <<prev[index + 1]>>

FilterOut(prev, index) == FilterFrom(prev, index, 1)

(***************************************************************************)
(* Props and rendering.                                                    *)
(***************************************************************************)
NoConversation == [null |-> TRUE, messages |-> <<>>]

Conversation(messages) == [null |-> FALSE, messages |-> messages]

UserTurn == [role |-> "user", content |-> StringContent(<<"a">>)]

Conversations == {NoConversation, Conversation(<<>>), Conversation(<<UserTurn>>)}

\* faulty variant: the form stays below a conversation that has turns
ComposerRendered_Always == ~conversation.null

\* lines 90 and 197: the form is rendered
ComposerRendered == ~conversation.null /\ Len(conversation.messages) = 0

\* line 247
SendDisabled ==
    (Trim(input) = <<>> /\ Len(selectedImages) = 0) \/ isLoading

(***************************************************************************)
(* Assistant turns: a loading flag and a result per stage.  A result that  *)
(* is not there is undefined; every result the parent sets is an array or  *)
(* an object, which is truthy.                                             *)
(***************************************************************************)
Stages == {1, 2, 3}

StageResults == {"undefined", "result"}

Truthy(v) == v \notin {"undefined", "null", ""}

AssistantTurns ==
    {[role |-> "assistant", loading |-> l, results |-> r] :
        l \in [Stages -> BOOLEAN], r \in [Stages -> StageResults]}

\* the conversations the views are rendered for
RenderConversations ==
    Conversations \cup {Conversation(<<UserTurn, a>>) : a \in AssistantTurns}

\* an element of the rendered tree: its class or component, and the index
\* of the turn it belongs to (0: none)
Element(el, turn) == [el |-> el, turn |-> turn]

\* faulty variant: the indicator of a stage is hidden once its result is
\* there, and the view of a stage waits for the stage before it
StageElements_Gated(msg, n, k) ==
    (IF msg.loading[n] /\ ~Truthy(msg.results[n])
     THEN {Element(<<"stage-loading", n>>, k)} ELSE {})
    \cup (IF Truthy(msg.results[n]) /\ (n = 1 \/ Truthy(msg.results[n - 1]))
          THEN {Element(<<"Stage", n>>, k)} ELSE {})

\* lines 150-156, 159-171, 174-180: stage n of the assistant turn at index k
StageElements(msg, n, k) ==
    (IF msg.loading[n] THEN {Element(<<"stage-loading", n>>, k)} ELSE {})
    \cup (IF Truthy(msg.results[n]) THEN {Element(<<"Stage", n>>, k)} ELSE {})

\* lines 111-183: the turn at index k
TurnElements(msg, k) ==
    IF msg.role = "user"
    THEN {Element(<<"user-message", 0>>, k),
          Element(<<IF msg.content.type = "string" THEN "markdown-content"
                    ELSE "multimodal-content", 0>>, k)}
    ELSE {Element(<<"assistant-message", 0>>, k)}
         \cup UNION {StageElements(msg, n, k) : n \in Stages}

\* line 187
LoadingIndicatorShown == isLoading

\* lines 90-256: what the component renders
View ==
    IF conversation.null
    THEN {Element(<<"empty-state", 0>>, 0)}
    ELSE {Element(<<"messages-container", 0>>, 0)}
         \cup (IF Len(conversation.messages) = 0
               THEN {Element(<<"empty-state", 0>>, 0)}
               ELSE UNION {TurnElements(conversation.messages[k], k) :
                              k \in 1..Len(conversation.messages)})
         \cup (IF LoadingIndicatorShown
               THEN {Element(<<"loading-indicator", 0>>, 0)} ELSE {})
         \cup (IF ComposerRendered
               THEN {Element(<<"input-form", 0>>, 0),
                     Element(<<"message-input", 0>>, 0),
                     Element(<<"attach-button", 0>>, 0),
                     Element(<<"send-button", 0>>, 0)}
                    \cup {Element(<<"image-preview", 0>>, i) :
                             i \in 1..Len(selectedImages)}
               ELSE {})

(***************************************************************************)
(* What a handler did to the outside: the arguments of its onSendMessage   *)
(* calls with the way the callback's promise will end, its alert() calls,  *)
(* whether it called preventDefault, the batch whose read it handled (as   *)
(* the read left it), the index removeImage was called with and the key    *)
(* event handleKeyDown was called with.  With them, what watch had         *)
(* observed when the handler let the last awaiting batch settle.           *)
(***************************************************************************)
NoEffects ==
    [sent |-> <<>>, callback |-> "none", alerts |-> 0, prevented |-> FALSE,
     read |-> <<>>, removed |-> <<>>, key |-> <<>>, watched |-> <<>>]

CallbackOutcomes == {"resolves", "rejects"}

\* the files of the scenario of the spec's section 8
ScenarioFiles == <<FileA, FileB>>

(***************************************************************************)
(* Two observers of the run.  watch follows the batches selected since the *)
(* last moment no batch was awaiting its reads: the staged images at that  *)
(* moment, the images of the batches that have resolved since, in the      *)
(* order they resolved, and whether a call was made while another batch    *)
(* was still awaiting its reads.  A removeImage or a dispatch ends it, and *)
(* so does the step after which no batch is awaiting its reads any more:   *)
(* that step hands what was observed over to effects.                      *)
(* clean tells that no text edit and no file selection has happened since  *)
(* the last dispatch.                                                      *)
(***************************************************************************)
NoWatch == [on |-> FALSE, pre |-> <<>>, expect |-> <<>>, overlapped |-> FALSE]

\* the batches whose await of line 44 has not returned or thrown yet
Awaiting == {b \in BagToSet(batches) : PromiseAllState(b) = "pending"}

WatchSelect(files) ==
    IF files = <<>> THEN watch
    ELSE IF Awaiting = {}
    THEN [on |-> TRUE, pre |-> selectedImages, expect |-> <<>>, overlapped |-> FALSE]
    ELSE IF watch.on THEN [watch EXCEPT !.overlapped = TRUE]
    ELSE watch

WatchRead(old, new) ==
    IF watch.on /\ Settles(old, new) /\ PromiseAllState(new) = "fulfilled"
    THEN [watch EXCEPT !.expect =
             @ \o [i \in 1..Len(new.files) |->
                      [dataUrl |-> <<"data:image/png;base64,", new.files[i].bytes>>,
                       name |-> new.files[i].name]]]
    ELSE watch

\* the batches awaiting their reads once a read has taken old to new
AwaitingAfter(old, new) ==
    (IF CopiesIn(old, batches) > 1 THEN Awaiting ELSE Awaiting \ {old})
    \cup (IF PromiseAllState(new) = "pending" THEN {new} ELSE {})

\* the scenario after a step that is none of its steps and changes nothing
\* of the composer: it goes on, unless it had ended
ScenarioGoesOn == IF scenario = "sent" THEN "off" ELSE scenario

Init ==
    /\ input = <<>>
    /\ selectedImages = <<>>
    /\ batches = EmptyBag
    /\ isLoading = FALSE
    /\ conversation \in Conversations
    /\ effects = NoEffects
    /\ scenario = "start"
    /\ watch = NoWatch
    /\ clean = FALSE

(***************************************************************************)
(* The parent renders the component with other props.                      *)
(***************************************************************************)
PropsChange ==
    /\ \E c \in Conversations, l \in BOOLEAN :
          /\ <<c, l>> /= <<conversation, isLoading>>
          /\ conversation' = c
          /\ isLoading' = l
    /\ effects' = NoEffects
    /\ scenario' = ScenarioGoesOn
    /\ UNCHANGED <<input, selectedImages, batches, watch, clean>>

\* faulty variant: a text edit drops the staged images
OnChange_DropsImages(value) ==
    /\ ComposerRendered /\ ~isLoading
    /\ value /= input
    /\ input' = value
    /\ selectedImages' = <<>>
    /\ effects' = NoEffects
    /\ scenario' = "off"
    /\ clean' = FALSE
    /\ UNCHANGED <<batches, isLoading, conversation, watch>>

(***************************************************************************)
(* line 221: onChange of the textarea (disabled while isLoading)           *)
(***************************************************************************)
OnChange(value) ==
    /\ ComposerRendered /\ ~isLoading
    /\ value /= input
    /\ input' = value
    /\ effects' = NoEffects
    /\ scenario' = IF scenario = "removed" /\ value = Hello THEN "typed" ELSE "off"
    /\ clean' = FALSE
    /\ UNCHANGED <<selectedImages, batches, isLoading, conversation, watch>>

(***************************************************************************)
(* lines 27-50, up to the await: the reads of the files start.  An empty   *)
(* selection settles at once.                                              *)
(***************************************************************************)
RECURSIVE FilesOf(_)
FilesOf(S) ==
    IF S = {} THEN 0
    ELSE LET b == CHOOSE x \in S : TRUE
         IN Len(b.files) * CopiesIn(b, batches) + FilesOf(S \ {b})

StagedOrPending == Len(selectedImages) + FilesOf(BagToSet(batches))

handleImageSelect(files) ==
    /\ ComposerRendered
    /\ StagedOrPending + Len(files) <= MaxStaged
    /\ LET new == [files |-> files, order |-> <<>>, submitted |-> FALSE] IN
       IF files = <<>>
       THEN /\ selectedImages' = selectedImages \o PromiseAllValue(new)
            /\ effects' = [NoEffects EXCEPT !.read = <<new>>]
            /\ UNCHANGED batches
       ELSE /\ batches' = batches (+) SetToBag({new})
            /\ effects' = NoEffects
            /\ UNCHANGED selectedImages
    /\ scenario' = IF scenario = "start" /\ files = ScenarioFiles
                   THEN "selected" ELSE "off"
    /\ watch' = WatchSelect(files)
    /\ clean' = FALSE
    /\ UNCHANGED <<input, isLoading, conversation>>

(***************************************************************************)
(* lines 32-38 and 43-49: a read completes (onload or onerror); when that  *)
(* settles Promise.all, the rest of handleImageSelect runs.                *)
(***************************************************************************)
ReaderEvent(old, i, ok) ==
    /\ BagIn(old, batches)
    /\ i \in PendingReads(old)
    /\ LET new == [old EXCEPT !.order = Append(@, [index |-> i, ok |-> ok])]
       IN /\ selectedImages' = AfterAwait(selectedImages, old, new)
          /\ effects' = [NoEffects EXCEPT
                            !.alerts = AlertCalls(old, new),
                            !.read = <<new>>,
                            !.watched = IF AwaitingAfter(old, new) = {} /\ watch.on
                                        THEN <<WatchRead(old, new)>> ELSE <<>>]
          /\ batches' = (batches (-) SetToBag({old}))
                         (+) (IF PendingReads(new) = {} THEN EmptyBag
                              ELSE SetToBag({new}))
          /\ scenario' = IF scenario = "selected" /\ ok
                         THEN (IF PendingReads(new) = {} THEN "staged" ELSE "selected")
                         ELSE "off"
          /\ watch' = IF AwaitingAfter(old, new) = {} THEN NoWatch
                       ELSE WatchRead(old, new)
    /\ UNCHANGED <<input, isLoading, conversation, clean>>

ReaderOnload(b, i) == ReaderEvent(b, i, TRUE)

ReaderOnerror(b, i) == ReaderEvent(b, i, FALSE)

(***************************************************************************)
(* lines 52-54 and 207: the remove button of the staged image at index     *)
(***************************************************************************)
removeImage(index) ==
    /\ ComposerRendered
    /\ index \in 0..(Len(selectedImages) - 1)
    /\ selectedImages' = FilterOut(selectedImages, index)
    /\ effects' = [NoEffects EXCEPT !.removed = <<index>>]
    /\ scenario' = IF scenario = "staged" /\ index = 0 THEN "removed" ELSE "off"
    /\ watch' = NoWatch
    /\ UNCHANGED <<input, batches, isLoading, conversation, clean>>

(***************************************************************************)
(* lines 56-80.  A dispatch leaves the reads in flight alone (nothing      *)
(* cancels them); it is only noted on the batches still awaiting them that *)
(* a submit was dispatched after their handleImageSelect call.             *)
(***************************************************************************)
MarkSubmitted(b) ==
    IF PromiseAllState(b) = "pending" THEN [b EXCEPT !.submitted = TRUE] ELSE b

handleSubmit(e) ==
    /\ IF SubmitGuard(input, selectedImages, isLoading)
       THEN /\ \E outcome \in CallbackOutcomes :
                  /\ effects' = [NoEffects EXCEPT
                                    !.sent = <<BuildContent(input, selectedImages)>>,
                                    !.callback = outcome,
                                    !.prevented = TRUE,
                                    !.key = e]
                  /\ input' = ResetDraft(input, selectedImages, outcome).input
                  /\ selectedImages' =
                        ResetDraft(input, selectedImages, outcome).selectedImages
            /\ batches' = BagOfAll(MarkSubmitted, batches)
            /\ scenario' = IF scenario = "typed" THEN "sent" ELSE "off"
            /\ watch' = NoWatch
            /\ clean' = TRUE
       ELSE /\ effects' = [NoEffects EXCEPT !.prevented = TRUE, !.key = e]
            /\ scenario' = "off"
            /\ UNCHANGED <<input, selectedImages, batches, watch, clean>>
    /\ UNCHANGED <<isLoading, conversation>>

\* lines 198 and 244-250: the send button submits the form
ClickSend ==
    /\ ComposerRendered /\ ~SendDisabled
    /\ handleSubmit(<<>>)

\* faulty variant: Enter submits with Shift held too
SubmitKey_IgnoreShift(key, shiftKey) == key = "Enter"

\* line 84
SubmitKey(key, shiftKey) == key = "Enter" /\ ~shiftKey

KeyEvent(key, shiftKey) == [key |-> key, shiftKey |-> shiftKey]

\* lines 82-88 and 222: a key pressed in the textarea (disabled while isLoading)
handleKeyDown(key, shiftKey) ==
    /\ ComposerRendered /\ ~isLoading
    /\ IF SubmitKey(key, shiftKey)
       THEN handleSubmit(<<KeyEvent(key, shiftKey)>>)
       ELSE /\ effects' = [NoEffects EXCEPT !.key = <<KeyEvent(key, shiftKey)>>]
            /\ scenario' = ScenarioGoesOn
            /\ UNCHANGED <<input, selectedImages, batches, isLoading, conversation,
                           watch, clean>>

Keys == {"Enter", "a"}

Next ==
    \/ PropsChange
    \/ \E value \in Texts : OnChange(value)
    \/ \E files \in FileLists : handleImageSelect(files)
    \/ \E b \in BagToSet(batches), i \in 1..Cardinality(Files) : ReaderOnload(b, i)
    \/ \E b \in BagToSet(batches), i \in 1..Cardinality(Files) : ReaderOnerror(b, i)
    \/ \E index \in 0..(MaxStaged - 1) : removeImage(index)
    \/ ClickSend
    \/ \E key \in Keys, shiftKey \in BOOLEAN : handleKeyDown(key, shiftKey)

Spec == Init /\ [][Next]_vars

(***************************************************************************)
(* Lines 60-76 alone, applied to every draft text and every list of staged *)
(* images, whether or not the guard of line 58 lets them through.          *)
(***************************************************************************)
StagedLists == SeqsUpTo({ImageOf(f) : f \in Files}, MaxStaged)

BuildInit ==
    /\ input \in Texts
    /\ selectedImages \in StagedLists
    /\ batches = EmptyBag
    /\ isLoading = FALSE
    /\ conversation = Conversation(<<>>)
    /\ effects = NoEffects
    /\ scenario = "off"
    /\ watch = NoWatch
    /\ clean = FALSE

Build ==
    /\ effects.sent = <<>>
    /\ effects' = [NoEffects EXCEPT !.sent = <<BuildContent(input, selectedImages)>>]
    /\ UNCHANGED <<input, selectedImages, batches, isLoading, conversation, scenario,
                   watch, clean>>

BuildNext == Build

BuildSpec == BuildInit /\ [][BuildNext]_vars

(***************************************************************************)
(* The rendering alone: the parent renders the component with every        *)
(* conversation of RenderConversations, loading or not, one after another. *)
(***************************************************************************)
RenderInit ==
    /\ input = <<>>
    /\ selectedImages = <<>>
    /\ batches = EmptyBag
    /\ isLoading = FALSE
    /\ conversation \in Conversations
    /\ effects = NoEffects
    /\ scenario = "off"
    /\ watch = NoWatch
    /\ clean = FALSE

Render ==
    /\ \E c \in RenderConversations, l \in BOOLEAN :
          /\ <<c, l>> /= <<conversation, isLoading>>
          /\ conversation' = c
          /\ isLoading' = l
    /\ UNCHANGED <<input, selectedImages, batches, effects, scenario, watch, clean>>

RenderNext == Render

RenderSpec == RenderInit /\ [][RenderNext]_vars

TypeOK ==
    /\ input \in Texts
    /\ Len(selectedImages) <= MaxStaged
    /\ \A k \in 1..Len(selectedImages) : selectedImages[k] \in {ImageOf(f) : f \in Files}
    /\ isLoading \in BOOLEAN
    /\ conversation \in Conversations
    /\ \A b \in BagToSet(batches) : PendingReads(b) /= {}
    /\ StagedOrPending <= MaxStaged

(***************************************************************************)
(* Properties.  A step in which a read completed is told by effects'.read, *)
(* which holds the batch as that read left it; a step that dispatched by   *)
(* effects'.sent; a removeImage step by effects'.removed.                  *)
(***************************************************************************)
ReadHappened(e) == e.read /= <<>>

Dispatched(e) == e.sent /= <<>>

Batch(e) == e.read[1]

\* the {dataUrl, name} entries of a batch's files, in input-file order
ExpectedImages(files) ==
    [i \in 1..Len(files) |->
        [dataUrl |-> <<"data:image/png;base64,", files[i].bytes>>,
         name |-> files[i].name]]

\* the positions of the reads of b in the order they completed
CompletionOrder(b) == [k \in 1..Len(b.order) |-> b.order[k].index]

\* C1: a step of a batch with a failed read (the step in which its first
\* read fails, and every later read of it, loaded or failed) leaves the
\* staged images as they were: nothing of the batch is appended.
C1_FailedBatchAppendsNothing ==
    [][(ReadHappened(effects') /\ Failed(Batch(effects')) /= {})
          => selectedImages' = selectedImages]_vars

\* a two-file batch whose second file loaded and whose first then failed,
\* with an image staged before
C1_Witness ==
    /\ ReadHappened(effects)
    /\ Len(Batch(effects).files) = 2
    /\ Batch(effects).order = <<[index |-> 2, ok |-> TRUE], [index |-> 1, ok |-> FALSE]>>
    /\ Len(selectedImages) = 1

\* C2: the step in which the last read of a batch loads, all the others
\* having loaded, replaces the staged images by the staged images followed
\* by one {dataUrl, name} entry per file in input-file order.
C2_SuccessAppendsInInputOrder ==
    [][(ReadHappened(effects') /\ PromiseAllState(Batch(effects')) = "fulfilled")
          => selectedImages' = selectedImages \o ExpectedImages(Batch(effects').files)]_vars

\* a two-file batch whose reads loaded in reverse order, appended in file
\* order behind an image staged before
C2_Witness ==
    /\ ReadHappened(effects)
    /\ PromiseAllState(Batch(effects)) = "fulfilled"
    /\ CompletionOrder(Batch(effects)) = <<2, 1>>
    /\ Len(selectedImages) = 3
    /\ SubSeq(selectedImages, 2, 3) = ExpectedImages(Batch(effects).files)

\* C3: while a batch has a read pending its steps leave the staged images
\* as they were, and so does the step that starts it; the step in which
\* its last read loads stages all of its images at once.
C3_NoPartialResults ==
    [][/\ (ReadHappened(effects') /\ PendingReads(Batch(effects')) /= {})
             => selectedImages' = selectedImages
       /\ (~ReadHappened(effects') /\ ~Dispatched(effects') /\ batches' /= batches)
             => selectedImages' = selectedImages
       /\ (ReadHappened(effects') /\ PromiseAllState(Batch(effects')) = "fulfilled")
             => Len(selectedImages') = Len(selectedImages) + Len(Batch(effects').files)]_vars

\* a batch with one read loaded and one pending, nothing staged
C3_Witness ==
    /\ ReadHappened(effects)
    /\ Len(Batch(effects).files) = 2
    /\ Len(Batch(effects).order) = 1
    /\ Batch(effects).order[1].ok
    /\ BagIn(Batch(effects), batches)
    /\ selectedImages = <<>>

\* C4: alert() is called once in the step in which the first read of a
\* batch fails, and in no other step: not when further reads of the batch
\* fail, and not for a batch all of whose reads load.
C4_OneNoticePerFailedBatch ==
    [][effects'.alerts =
          IF /\ ReadHappened(effects')
             /\ Failed(Batch(effects')) /= {}
             /\ Failed(Before(Batch(effects'))) = {}
          THEN 1 ELSE 0]_vars

\* the second read of a batch has failed after the first had: no new notice
C4_Witness ==
    /\ ReadHappened(effects)
    /\ Batch(effects).order = <<[index |-> 1, ok |-> FALSE], [index |-> 2, ok |-> FALSE]>>
    /\ effects.alerts = 0


\* C5: onSendMessage is called only in a step taken with isLoading false
\* and a draft that has text after trimming or at least one staged image,
\* by the send button or by Enter; and what it is called with is never an
\* empty array nor a string that is empty after trimming.
C5_SendOnlyWhenAllowed ==
    /\ [][Dispatched(effects')
             => /\ ~isLoading
                /\ (Trim(input) /= <<>> \/ Len(selectedImages) > 0)]_vars
    /\ [](\A k \in 1..Len(effects.sent) :
             /\ effects.sent[k].type = "array" => Len(effects.sent[k].parts) >= 1
             /\ effects.sent[k].type = "string" => Trim(effects.sent[k].text) /= <<>>)

\* a draft of images alone was sent
C5_Witness ==
    /\ Dispatched(effects)
    /\ effects.sent[1].type = "array"
    /\ \A k \in 1..Len(effects.sent[1].parts) :
          effects.sent[1].parts[k].type = "image_url"

\* C6: every step that calls onSendMessage leaves the draft text empty and
\* no image staged, whether the promise the callback returned resolves or
\* rejects.
C6_ResetOnDispatch ==
    [][Dispatched(effects') => (input' = <<>> /\ selectedImages' = <<>>)]_vars

\* a draft of text and images was sent, the callback fails, the draft is reset
C6_Witness ==
    /\ Dispatched(effects)
    /\ effects.callback = "rejects"
    /\ effects.sent[1].type = "array"
    /\ Len(effects.sent[1].parts) = 3
    /\ effects.sent[1].parts[1].type = "text"
    /\ input = <<>>
    /\ selectedImages = <<>>

C8_MultimodalParts ==
    [][(Dispatched(effects') /\ Len(selectedImages) > 0)
          => LET c == effects'.sent[1]
                 off == IF Trim(input) /= <<>> THEN 1 ELSE 0
             IN /\ Len(effects'.sent) = 1
                /\ c.type = "array"
                /\ Len(c.parts) = off + Len(selectedImages)
                /\ off = 1 => c.parts[1] = [type |-> "text", text |-> input]
                /\ \A k \in 1..Len(selectedImages) :
                      c.parts[off + k] =
                          [type |-> "image_url",
                           image_url |-> [url |-> selectedImages[k].dataUrl]]]_vars

\* two different images were sent without a text part
C8_Witness ==
    /\ Dispatched(effects)
    /\ effects.sent[1].type = "array"
    /\ Len(effects.sent[1].parts) = 2
    /\ effects.sent[1].parts[1].type = "image_url"
    /\ effects.sent[1].parts[2].type = "image_url"
    /\ effects.sent[1].parts[1] /= effects.sent[1].parts[2]

\* C9: a removeImage(i) step on n staged images, 0 <= i < n, leaves n - 1
\* of them: those before position i as they were, those after it moved up
\* by one.
C9_RemoveExactlyIndex ==
    [][effects'.removed /= <<>>
          => LET i == effects'.removed[1]
                 n == Len(selectedImages)
             IN /\ 0 <= i /\ i < n
                /\ Len(selectedImages') = n - 1
                /\ \A k \in 1..(n - 1) :
                      selectedImages'[k] =
                          IF k <= i THEN selectedImages[k] ELSE selectedImages[k + 1]]_vars

\* index 0 was removed from three staged images: the two others are left,
\* two different images, in the order they had
C9_Witness ==
    /\ effects.removed = <<0>>
    /\ Len(selectedImages) = 2
    /\ selectedImages[1] /= selectedImages[2]
    /\ selectedImages[2] = ImageOf(FileA)

\* C10: from the empty composer, the two files selected and both loaded:
\* both staged, in selection order; index 0 removed: the second is left;
\* "hello" typed and submitted: onSendMessage called once with the array
\* of the text part "hello" and the image part of the second image, and
\* the draft text and the staged images are empty.
C10_Scenario ==
    /\ scenario = "staged"
          => selectedImages = ExpectedImages(ScenarioFiles)
    /\ scenario = "removed"
          => selectedImages = <<ExpectedImages(ScenarioFiles)[2]>>
    /\ scenario = "typed"
          => /\ input = Hello
             /\ selectedImages = <<ExpectedImages(ScenarioFiles)[2]>>
    /\ scenario = "sent"
          => /\ effects.sent =
                    <<[type |-> "array",
                       parts |-> <<[type |-> "text", text |-> Hello],
                                   [type |-> "image_url",
                                    image_url |->
                                       [url |-> ExpectedImages(ScenarioFiles)[2].dataUrl]]>>]>>
             /\ selectedImages = <<>>
             /\ input = <<>>

\* the scenario was followed to its end
C10_Witness == scenario = "sent"


Shown(el, turn) == Element(el, turn) \in View

\* the assistant turns of the conversation, by index
AssistantAt(k) ==
    /\ k \in 1..Len(conversation.messages)
    /\ conversation.messages[k].role = "assistant"

\* C11: the form, with its text box, attach button and send button, is
\* rendered when a conversation is given and has no turn, and only then.
C11_ComposerOnlyForEmptyConversation ==
    \A el \in {"input-form", "message-input", "attach-button", "send-button"} :
        Shown(<<el, 0>>, 0)
           <=> (~conversation.null /\ Len(conversation.messages) = 0)

\* a conversation with one turn, a user message: no form
C11_Witness ==
    /\ ~conversation.null
    /\ Len(conversation.messages) = 1
    /\ conversation.messages[1].role = "user"
    /\ ~Shown(<<"input-form", 0>>, 0)
    /\ Shown(<<"user-message", 0>>, 1)

\* C12: for every assistant turn and every stage n, the progress indicator
\* of stage n is rendered exactly when loading[n] is set and the result
\* view of stage n exactly when its result is there, whatever the flags and
\* results of the two other stages; and nothing else of a stage is rendered.
C12_StagesRenderIndependently ==
    \A k \in 1..Len(conversation.messages) :
        AssistantAt(k) =>
            /\ \A n \in Stages :
                  /\ Shown(<<"stage-loading", n>>, k)
                        <=> conversation.messages[k].loading[n]
                  /\ Shown(<<"Stage", n>>, k)
                        <=> conversation.messages[k].results[n] = "result"
            /\ (/\ conversation.messages[k].loading = <<TRUE, FALSE, FALSE>>
                /\ conversation.messages[k].results =
                      <<"undefined", "undefined", "undefined">>)
                  => {e \in View : e.turn = k} =
                        {Element(<<"assistant-message", 0>>, k),
                         Element(<<"stage-loading", 1>>, k)}
            /\ (/\ conversation.messages[k].loading = <<FALSE, FALSE, FALSE>>
                /\ conversation.messages[k].results =
                      <<"result", "result", "undefined">>)
                  => {e \in View : e.turn = k} =
                        {Element(<<"assistant-message", 0>>, k),
                         Element(<<"Stage", 1>>, k),
                         Element(<<"Stage", 2>>, k)}

\* an assistant turn with the result of stage 2 but not of stage 1, stage
\* 2 still flagged loading: the view and the indicator of stage 2 are both
\* rendered, nothing of stage 1
C12_Witness ==
    /\ AssistantAt(2)
    /\ conversation.messages[2].loading = <<FALSE, TRUE, FALSE>>
    /\ conversation.messages[2].results = <<"undefined", "result", "undefined">>
    /\ Shown(<<"Stage", 2>>, 2)
    /\ Shown(<<"stage-loading", 2>>, 2)
    /\ ~Shown(<<"Stage", 1>>, 2)

\* some assistant turn carries a loading flag or a stage result
StageInfoExists ==
    \E k \in 1..Len(conversation.messages) :
        /\ AssistantAt(k)
        /\ \E n \in Stages :
              \/ conversation.messages[k].loading[n]
              \/ conversation.messages[k].results[n] = "result"

\* C14: for a given conversation, the "consulting" indicator is rendered
\* exactly when isLoading is set and no assistant turn carries a loading
\* flag or a stage result.
C14_IndicatorUntilStageInfo ==
    ~conversation.null =>
        (Shown(<<"loading-indicator", 0>>, 0) <=> (isLoading /\ ~StageInfoExists))


KeyPressed(e) == e.key /= <<>>

\* C13: a key-down of Enter without Shift calls preventDefault and runs the
\* submit (which dispatches the content built from the draft whenever the
\* guard lets it through, and changes nothing otherwise); a key-down of
\* Enter with Shift dispatches nothing, leaves the draft as it is and does
\* not call preventDefault, so that the line break is inserted.
C13_EnterSubmitsShiftEnterDoesNot ==
    [][KeyPressed(effects') =>
          LET e == effects'.key[1] IN
          /\ (e.key = "Enter" /\ ~e.shiftKey) =>
                /\ effects'.prevented
                /\ IF SubmitGuard(input, selectedImages, isLoading)
                   THEN /\ Dispatched(effects')
                        /\ effects'.sent = <<BuildContent(input, selectedImages)>>
                   ELSE /\ ~Dispatched(effects')
                        /\ <<input', selectedImages'>> = <<input, selectedImages>>
          /\ (e.key = "Enter" /\ e.shiftKey) =>
                /\ ~effects'.prevented
                /\ ~Dispatched(effects')
                /\ <<input', selectedImages'>> = <<input, selectedImages>>
      ]_vars

\* Enter was pressed with Shift on a draft that a submit would have sent:
\* nothing was sent and the draft is still there
C13_Witness ==
    /\ KeyPressed(effects)
    /\ effects.key[1] = KeyEvent("Enter", TRUE)
    /\ SubmitGuard(input, selectedImages, isLoading)
    /\ Len(selectedImages) > 0
    /\ ~effects.prevented
    /\ ~Dispatched(effects)


\* C15: once a submit has been dispatched, no image of a handleImageSelect
\* call made before it gets into the staged images: a batch whose reads
\* were in flight at the dispatch stages nothing when it settles.
C15_NothingStagedFromBeforeSubmit ==
    [][(ReadHappened(effects') /\ Batch(effects').submitted)
          => selectedImages' = selectedImages]_vars


\* the read that completed in the step is the first of its batch to fail
FirstFailure(e) ==
    /\ ReadHappened(e)
    /\ Batch(e).order /= <<>>
    /\ ~Batch(e).order[Len(Batch(e).order)].ok
    /\ Failed(Before(Batch(e))) = {}

\* C16: the step in which a read of a batch fails for the first time calls
\* alert(), whether or not other reads of the batch are still pending: the
\* notice waits for no other read.  So every batch with a failed read has
\* had its notice, even if the rest of its reads never complete.
C16_FailureAlwaysNoticed ==
    [][FirstFailure(effects') => effects'.alerts >= 1]_vars

\* the first of two reads has failed, the other is still pending: the
\* notice has been given
C16_Witness ==
    /\ FirstFailure(effects)
    /\ PendingReads(Batch(effects)) /= {}
    /\ BagIn(Batch(effects), batches)
    /\ effects.alerts = 1


\* the step ran a handler of the component that is not the text edit
HandlerRan(e) == e /= NoEffects

\* the batch whose read completed in the step resolved as a whole in it
Fulfilled(e) ==
    /\ ReadHappened(e)
    /\ PromiseAllState(Batch(e)) = "fulfilled"

\* C17: the staged images change only in a step in which a batch resolves
\* with all its reads loaded, in a removeImage step or in a dispatching
\* submit; the draft text changes only in a text edit or in a dispatching
\* submit.  A text edit leaves the staged images, a file selection, a read
\* and a removeImage leave the text; a read of a failed batch and a submit
\* that the guard stops leave both.  No step of a handler changes the
\* conversation or isLoading, which only the parent changes.
C17_Frame ==
    [][/\ selectedImages' /= selectedImages
             => \/ Fulfilled(effects')
                \/ effects'.removed /= <<>>
                \/ Dispatched(effects')
       /\ input' /= input
             => \/ Dispatched(effects')
                \/ (~HandlerRan(effects') /\ selectedImages' = selectedImages
                      /\ batches' = batches)
       /\ (ReadHappened(effects') \/ effects'.removed /= <<>>
             \/ (batches' /= batches /\ ~Dispatched(effects')))
             => input' = input
       /\ (ReadHappened(effects') /\ Failed(Batch(effects')) /= {})
             => <<input', selectedImages'>> = <<input, selectedImages>>
       /\ (effects'.prevented /\ ~Dispatched(effects'))
             => <<input', selectedImages', batches'>>
                   = <<input, selectedImages, batches>>
       /\ (HandlerRan(effects') \/ input' /= input
             \/ selectedImages' /= selectedImages \/ batches' /= batches)
             => <<conversation', isLoading'>> = <<conversation, isLoading>>
      ]_vars

\* a submit of a blank draft was stopped by the guard while a batch was in
\* flight: text and batch are as they were
C17_Witness ==
    /\ effects.prevented
    /\ ~Dispatched(effects)
    /\ input = <<" ">>
    /\ selectedImages = <<>>
    /\ batches /= EmptyBag


\* what watch had observed when the last awaiting batch settled
Watched(e) == e.watched[1]

\* C18: with batches selected while others were still awaiting their reads
\* (and no removeImage and no dispatch since), the staged images are, at
\* every moment and when the last batch has settled: what was staged before
\* the first call, followed by the images of every batch that resolved, each
\* whole and in the order of its files, the batches in the order they
\* resolved.  A batch that failed has added nothing and taken nothing away.
C18_OverlappingBatchesLoseNothing ==
    /\ watch.on => selectedImages = watch.pre \o watch.expect
    /\ effects.watched /= <<>>
          => selectedImages = Watched(effects).pre \o Watched(effects).expect

\* b.png was selected, then a.png and b.png together before the read of
\* b.png had loaded; the pair resolved first: staged are a.png, b.png, b.png
C18_Witness ==
    /\ effects.watched /= <<>>
    /\ Watched(effects).overlapped
    /\ Watched(effects).pre = <<>>
    /\ Batch(effects).files = <<FileB>>
    /\ selectedImages = ExpectedImages(<<FileA, FileB, FileB>>)


\* C19: a dispatching submit calls onSendMessage once, and while no text
\* edit and no file selection has happened since a dispatch, no step calls
\* it again, whatever isLoading is.
C19_NoSecondSendOfUntouchedDraft ==
    [][Dispatched(effects') => (Len(effects'.sent) = 1 /\ ~clean)]_vars


====
